---- MODULE Spec2Model ----
(***************************************************************************)
(* Model of lib/charms/mlops_libs/v0/k8s_service_info.py: the provider and *)
(* requirer ends of the k8s-svc-info relation.                             *)
(*                                                                         *)
(* One Juju model holds three applications: "prov" hosts a                 *)
(* KubernetesServiceInfoProvider, "req" hosts a                            *)
(* KubernetesServiceInfoRequirer, and "app" is any other application that  *)
(* can sit at either end of a relation.  A relation is identified by its   *)
(* name and its two ends and carries one data bag per end.                 *)
(***************************************************************************)
EXTENDS Integers, Sequences, FiniteSets, TLC

(* ---------------------------------------------------------------- bounds *)

\* Largest number of relations bound in the model at one time.
MaxRelations == 2

(* ------------------------------------------------------- library constants *)

DEFAULT_RELATION_NAME == "k8s-svc-info"

REQUIRED_ATTRIBUTES == <<"svc_name", "svc_port">>

(* ------------------------------------------------------------ environment *)

\* Relation names declared in the metadata of the charms.
RelationNames == {DEFAULT_RELATION_NAME, "other-relation"}

ProviderApp == "prov"
RequirerApp == "req"
OtherApp == "app"

\* The relations Juju can establish, each with a providing and a requiring
\* end: under the library's relation name the provider charm serves the
\* requirer charm and another application, and the requirer charm is also
\* served by another application; under the second name the two charms are
\* related to each other.
RelationIds ==
    { [name |-> DEFAULT_RELATION_NAME, provider |-> e[1], requirer |-> e[2]] :
        e \in { <<ProviderApp, RequirerApp>>,
                <<ProviderApp, OtherApp>>,
                <<OtherApp, RequirerApp>> } }
    \cup { [name |-> "other-relation",
            provider |-> ProviderApp, requirer |-> RequirerApp] }

\* Values a Kubernetes Service name and port take in the model.
SvcNames == {"svc-a", "svc.b1"}
SvcPorts == {"80", "8080"}

\* What the application at the providing end may store under each key.
ProviderSideWrites ==
    { <<"svc_name", v>> : v \in SvcNames } \cup
    { <<"svc_port", v>> : v \in SvcPorts } \cup
    { <<"extra", "x">> }

\* What an application at the requiring end may store under each key; the
\* requirer charm itself publishes nothing.
RequirerSideWrites == { <<"extra", "x">> }

EmptyBag == [k \in {} |-> ""]

(* ------------------------------------------------------------------ state *)

VARIABLES
    relations,   \* bound relations: relation id -> (application -> data bag)
    requirer,    \* the KubernetesServiceInfoRequirer object's attributes
    provider,    \* the KubernetesServiceInfoProvider object's attributes
    last         \* the most recent step: the library call made and its outcome

vars == <<relations, requirer, provider, last>>

(* ------------------------------------------------- outcomes of a call *)

\* No library call was made in the most recent step.
NoCall ==
    [call |-> "none", args |-> << >>, kind |-> "none",
     exc |-> "", message |-> "", value |-> EmptyBag,
     after |-> [call |-> "none", args |-> << >>]]

\* The call and arguments of an outcome: what a later read came after.
CallOf(outcome) == [call |-> outcome.call, args |-> outcome.args]

\* The call returned value.
Return(call, args, value) ==
    [call |-> call, args |-> args, kind |-> "return",
     exc |-> "", message |-> "", value |-> value,
     after |-> [call |-> "none", args |-> << >>]]

\* The call raised exception exc carrying message.
Raise(call, args, exc, message) ==
    [call |-> call, args |-> args, kind |-> "raise",
     exc |-> exc, message |-> message, value |-> EmptyBag,
     after |-> [call |-> "none", args |-> << >>]]

\* KubernetesServiceInfoRelationMissingError(): the message is fixed.
KubernetesServiceInfoRelationMissingError ==
    [exc |-> "KubernetesServiceInfoRelationMissingError",
     message |-> "Missing k8s-svc-info relation."]

\* KubernetesServiceInfoRelationDataMissingError(message).
KubernetesServiceInfoRelationDataMissingError(message) ==
    [exc |-> "KubernetesServiceInfoRelationDataMissingError",
     message |-> message]

\* ops.model.TooManyRelatedAppsError, raised by the framework.
TooManyRelatedAppsError ==
    [exc |-> "TooManyRelatedAppsError", message |-> ""]

\* The result of a check that raised nothing.
Passed == [exc |-> "", message |-> ""]

(* ------------------------------------------------------ python helpers *)

\* str(list_of_str): the elements in quotes, separated by ", ".
RECURSIVE ReprItems(_)
ReprItems(items) ==
    IF Len(items) = 0 THEN ""
    ELSE IF Len(items) = 1 THEN "'" \o Head(items) \o "'"
    ELSE "'" \o Head(items) \o "', " \o ReprItems(Tail(items))

ReprList(items) == "[" \o ReprItems(items) \o "]"

\* dict.update(other): the keys of other are set, the rest are kept.
DictUpdate(bag, other) ==
    [k \in (DOMAIN bag) \cup (DOMAIN other) |->
        IF k \in DOMAIN other THEN other[k] ELSE bag[k]]

(* ------------------------------------------------- the framework's model *)

\* model.relations[relation_name] as seen by the charm of application app.
ModelRelations(rels, app, relation_name) ==
    { r \in DOMAIN rels :
        r.name = relation_name /\ app \in {r.provider, r.requirer} }

\* relation.app: the application at the other end of the relation.
RemoteApp(r, app) == IF r.provider = app THEN r.requirer ELSE r.provider

\* The Relation object the framework hands to the charm of application app.
RelationObject(rels, r, app) ==
    [id |-> r, app |-> RemoteApp(r, app), data |-> rels[r]]

\* Python's None.
None == [none |-> TRUE]

\* model.get_relation(relation_name): None without a relation, the relation
\* when there is one, TooManyRelatedAppsError when there are several.
get_relation(rels, app, relation_name) ==
    LET bound == ModelRelations(rels, app, relation_name)
    IN  IF Cardinality(bound) = 0 THEN [raised |-> Passed, relation |-> None]
        ELSE IF Cardinality(bound) = 1
        THEN [raised |-> Passed,
              relation |-> RelationObject(rels, CHOOSE r \in bound : TRUE, app)]
        ELSE [raised |-> TooManyRelatedAppsError, relation |-> None]

(* --------------------------------------- KubernetesServiceInfoRequirer *)

\* The attributes of REQUIRED_ATTRIBUTES that relation_data lacks, in the
\* order of REQUIRED_ATTRIBUTES.
MissingAttributes(relation_data) ==
    SelectSeq(REQUIRED_ATTRIBUTES, LAMBDA a : a \notin DOMAIN relation_data)

\* Checks that take a missing relation for a relation without data.
PreflightChecksDataFirst(relation) ==
    IF relation = None
    THEN KubernetesServiceInfoRelationDataMissingError(
             "No data found in relation data bag.")
    ELSE LET relation_data == relation.data[relation.app]
             missing_attributes == MissingAttributes(relation_data)
         IN  IF DOMAIN relation_data = {}
             THEN KubernetesServiceInfoRelationDataMissingError(
                      "No data found in relation data bag.")
             ELSE IF Len(missing_attributes) > 0
             THEN KubernetesServiceInfoRelationDataMissingError(
                      "Missing attributes: " \o ReprList(missing_attributes))
             ELSE Passed

\* The exception _relation_preflight_checks raises, or Passed.
_relation_preflight_checks(relation) ==
    IF relation = None
    THEN KubernetesServiceInfoRelationMissingError
    ELSE LET remote_app == relation.app
             relation_data == relation.data[remote_app]
             missing_attributes == MissingAttributes(relation_data)
         IN  IF DOMAIN relation_data = {}
             THEN KubernetesServiceInfoRelationDataMissingError(
                      "No data found in relation data bag.")
             ELSE IF Len(missing_attributes) > 0
             THEN KubernetesServiceInfoRelationDataMissingError(
                      "Missing attributes: " \o ReprList(missing_attributes))
             ELSE Passed

\* A getter that hands back the whole data bag.
ServiceInfoWholeBag(relation_data) == relation_data

\* The dictionary get_k8s_svc_info returns.
ServiceInfo(relation_data) ==
    [svc_name |-> relation_data["svc_name"],
     svc_port |-> relation_data["svc_port"]]

\* A getter that catches the framework's error and goes on without a
\* relation.
GetOutcomeCatching(rels, self) ==
    LET looked == get_relation(rels, self.app, self.relation_name)
        relation == looked.relation
        checked == _relation_preflight_checks(relation)
    IN  IF checked # Passed
        THEN Raise("get", << >>, checked.exc, checked.message)
        ELSE Return("get", << >>, ServiceInfo(relation.data[relation.app]))

\* The outcome of get_k8s_svc_info() on the relations rels.
GetOutcome(rels, self) ==
    LET looked == get_relation(rels, self.app, self.relation_name)
        relation == looked.relation
        checked == _relation_preflight_checks(relation)
    IN  IF looked.raised # Passed
        THEN Raise("get", << >>, looked.raised.exc, looked.raised.message)
        ELSE IF checked # Passed
        THEN Raise("get", << >>, checked.exc, checked.message)
        ELSE Return("get", << >>, ServiceInfo(relation.data[relation.app]))

(* --------------------------------------- KubernetesServiceInfoProvider *)

\* A provider that writes the revised field names.
SvcInfoDataRevised(svc_name, svc_port) ==
    [name |-> svc_name, port |-> svc_port]

\* The dictionary the provider merges into its data bag.
SvcInfoData(svc_name, svc_port) ==
    [svc_name |-> svc_name, svc_port |-> svc_port]

\* A provider that assigns its data bag instead of updating it.
SendRelationsAssigning(rels, self, svc_name, svc_port) ==
    LET bound == ModelRelations(rels, self.provider_charm, self.relation_name)
    IN  [r \in DOMAIN rels |->
            IF r \in bound
            THEN [rels[r] EXCEPT ![self.provider_charm] =
                      SvcInfoData(svc_name, svc_port)]
            ELSE rels[r]]

\* The relations after send_k8s_svc_info_relation_data(svc_name, svc_port).
SendRelations(rels, self, svc_name, svc_port) ==
    LET bound == ModelRelations(rels, self.provider_charm, self.relation_name)
    IN  [r \in DOMAIN rels |->
            IF r \in bound
            THEN [rels[r] EXCEPT ![self.provider_charm] =
                      DictUpdate(@, SvcInfoData(svc_name, svc_port))]
            ELSE rels[r]]

\* A provider that, like the requirer, refuses to work without a relation.
SendOutcomeStrict(rels, self, svc_name, svc_port) ==
    IF ModelRelations(rels, self.provider_charm, self.relation_name) = {}
    THEN Raise("send", <<svc_name, svc_port>>,
               KubernetesServiceInfoRelationMissingError.exc,
               KubernetesServiceInfoRelationMissingError.message)
    ELSE Return("send", <<svc_name, svc_port>>, EmptyBag)

\* The outcome of send_k8s_svc_info_relation_data(svc_name, svc_port).
SendOutcome(rels, self, svc_name, svc_port) ==
    Return("send", <<svc_name, svc_port>>, EmptyBag)

(* ---------------------------------------------------------------- actions *)

\* The charms are constructed with no relation bound; each accessor is
\* instantiated with the default relation name.
Init ==
    /\ relations = [r \in {} |-> EmptyBag]
    /\ requirer = [app |-> RequirerApp, relation_name |-> DEFAULT_RELATION_NAME]
    /\ provider = [provider_charm |-> ProviderApp,
                   relation_name |-> DEFAULT_RELATION_NAME]
    /\ last = NoCall

\* Juju binds relation r; both data bags start empty.
add_relation(r) ==
    /\ r \notin DOMAIN relations
    /\ Cardinality(DOMAIN relations) < MaxRelations
    /\ relations' = [q \in (DOMAIN relations) \cup {r} |->
                        IF q = r
                        THEN [a \in {r.provider, r.requirer} |-> EmptyBag]
                        ELSE relations[q]]
    /\ last' = NoCall
    /\ UNCHANGED <<requirer, provider>>

\* Juju removes relation r together with its data bags.
remove_relation(r) ==
    /\ r \in DOMAIN relations
    /\ relations' = [q \in (DOMAIN relations) \ {r} |-> relations[q]]
    /\ last' = NoCall
    /\ UNCHANGED <<requirer, provider>>

\* The application at one end of r stores value under key in its own bag.
update_relation_data(r, app, key, value) ==
    /\ r \in DOMAIN relations
    /\ app \in {r.provider, r.requirer}
    /\ <<key, value>> \in (IF app = r.provider THEN ProviderSideWrites
                           ELSE IF app = OtherApp THEN RequirerSideWrites
                           ELSE {})
    /\ relations' = [relations EXCEPT ![r][app] =
                        DictUpdate(@, [k \in {key} |-> value])]
    /\ last' = NoCall
    /\ UNCHANGED <<requirer, provider>>

\* A getter that consumes what it reads: the bags of the remote
\* applications under its relation name are emptied.
get_k8s_svc_info_consuming ==
    /\ last' = [GetOutcome(relations, requirer) EXCEPT !.after = CallOf(last)]
    /\ relations' =
          [r \in DOMAIN relations |->
              IF r \in ModelRelations(relations, requirer.app,
                                       requirer.relation_name)
              THEN [relations[r] EXCEPT ![RemoteApp(r, requirer.app)] = EmptyBag]
              ELSE relations[r]]
    /\ UNCHANGED <<requirer, provider>>

\* The requirer charm calls get_k8s_svc_info(); the outcome records the
\* call it came right after.
get_k8s_svc_info ==
    /\ last' = [GetOutcome(relations, requirer) EXCEPT !.after = CallOf(last)]
    /\ UNCHANGED <<relations, requirer, provider>>

\* The provider charm calls send_k8s_svc_info_relation_data(svc_name, svc_port).
send_k8s_svc_info_relation_data(svc_name, svc_port) ==
    /\ relations' = SendRelations(relations, provider, svc_name, svc_port)
    /\ last' = SendOutcome(relations, provider, svc_name, svc_port)
    /\ UNCHANGED <<requirer, provider>>

Next ==
    \/ \E r \in RelationIds : add_relation(r)
    \/ \E r \in RelationIds : remove_relation(r)
    \/ \E r \in RelationIds, app \in {ProviderApp, RequirerApp, OtherApp},
          w \in ProviderSideWrites \cup RequirerSideWrites :
          update_relation_data(r, app, w[1], w[2])
    \/ get_k8s_svc_info
    \/ \E svc_name \in SvcNames, svc_port \in SvcPorts :
          send_k8s_svc_info_relation_data(svc_name, svc_port)

Spec == Init /\ [][Next]_vars

TypeOK ==
    /\ DOMAIN relations \subseteq RelationIds
    /\ Cardinality(DOMAIN relations) <= MaxRelations
    /\ last.kind \in {"none", "return", "raise"}

(* ------------------------------------------------------------- properties *)

\* The keys of the required-attribute set.
RequiredKeys == { REQUIRED_ATTRIBUTES[i] : i \in DOMAIN REQUIRED_ATTRIBUTES }

\* The relations bound under the requirer's relation name.
RequirerBound ==
    ModelRelations(relations, requirer.app, requirer.relation_name)

\* The relations bound under the provider's relation name.
ProviderBound ==
    ModelRelations(relations, provider.provider_charm, provider.relation_name)

\* The data bag of the remote application of relation r, read by the requirer.
RemoteBag(r) == relations[r][RemoteApp(r, requirer.app)]

\* The most recent step was a get_k8s_svc_info() call that raised exc.
GetRaised(exc) ==
    last.call = "get" /\ last.kind = "raise" /\ last.exc = exc

\* C1: with exactly one remote application bound under the requirer's
\* relation name and every required key in its data bag, get_k8s_svc_info
\* raises nothing and returns exactly the two values stored under the
\* required keys, and no other key of the bag.
C1_CompleteBagIsReturned ==
    (last.call = "get" /\ Cardinality(RequirerBound) = 1) =>
        \A r \in RequirerBound :
            RequiredKeys \subseteq DOMAIN RemoteBag(r) =>
                /\ last.kind = "return"
                /\ DOMAIN last.value = RequiredKeys
                /\ \A k \in RequiredKeys : last.value[k] = RemoteBag(r)[k]

C1_Witness ==
    /\ last.call = "get"
    /\ last.kind = "return"
    /\ Cardinality(RequirerBound) = 1
    /\ \E r \in RequirerBound :
          DOMAIN RemoteBag(r) = RequiredKeys \cup {"extra"}

\* C2: with no remote application bound under the requirer's relation name,
\* get_k8s_svc_info raises KubernetesServiceInfoRelationMissingError and
\* returns nothing; the data-missing error is never raised in that state.
C2_NoRelationRaisesRelationMissing ==
    (last.call = "get" /\ RequirerBound = {}) =>
        /\ GetRaised("KubernetesServiceInfoRelationMissingError")
        /\ last.value = EmptyBag

C2_Witness ==
    /\ GetRaised("KubernetesServiceInfoRelationMissingError")
    /\ RequirerBound = {}
    /\ \E r \in DOMAIN relations :
          RequiredKeys \subseteq DOMAIN relations[r][r.provider]

\* C3: with two or more remote applications bound under the requirer's
\* relation name, get_k8s_svc_info fails with the framework's
\* TooManyRelatedAppsError whatever the data bags hold, and returns nothing.
C3_SeveralRelationsRaiseTooMany ==
    (last.call = "get" /\ Cardinality(RequirerBound) >= 2) =>
        /\ GetRaised("TooManyRelatedAppsError")
        /\ last.value = EmptyBag

C3_Witness ==
    /\ GetRaised("TooManyRelatedAppsError")
    /\ Cardinality(RequirerBound) >= 2
    /\ \E r \in RequirerBound : RequiredKeys \subseteq DOMAIN RemoteBag(r)
    /\ \E r \in RequirerBound : DOMAIN RemoteBag(r) = {}

\* C4: with exactly one remote application bound and an empty data bag,
\* get_k8s_svc_info raises KubernetesServiceInfoRelationDataMissingError
\* whose message is "No data found in relation <name> data bag.", <name>
\* being the requirer's relation name.
C4_EmptyBagMessageNamesRelation ==
    (last.call = "get" /\ Cardinality(RequirerBound) = 1) =>
        \A r \in RequirerBound :
            DOMAIN RemoteBag(r) = {} =>
                /\ GetRaised("KubernetesServiceInfoRelationDataMissingError")
                /\ last.message = "No data found in relation "
                                      \o requirer.relation_name \o " data bag."

\* The required keys a data bag lacks, in sorted order.
SortedMissingKeys(bag) ==
    (IF "svc_name" \in DOMAIN bag THEN << >> ELSE <<"svc_name">>)
        \o (IF "svc_port" \in DOMAIN bag THEN << >> ELSE <<"svc_port">>)

\* C5: with exactly one remote application bound and a non-empty data bag
\* that lacks a required key, get_k8s_svc_info raises
\* KubernetesServiceInfoRelationDataMissingError with the message
\* "Missing attributes: [<keys>] in relation <name>", <keys> being exactly
\* the missing required keys in sorted order.
C5_MissingKeysMessageNamesRelation ==
    (last.call = "get" /\ Cardinality(RequirerBound) = 1) =>
        \A r \in RequirerBound :
            (DOMAIN RemoteBag(r) # {}
                /\ ~(RequiredKeys \subseteq DOMAIN RemoteBag(r))) =>
                /\ GetRaised("KubernetesServiceInfoRelationDataMissingError")
                /\ last.message =
                       "Missing attributes: "
                           \o ReprList(SortedMissingKeys(RemoteBag(r)))
                           \o " in relation " \o requirer.relation_name

\* The provider charm and the requirer charm share one relation, and each
\* has no other relation under the accessors' relation name.
SharedSinglePeer ==
    /\ provider.relation_name = requirer.relation_name
    /\ ProviderBound = RequirerBound
    /\ Cardinality(RequirerBound) = 1

\* C6: when provider and requirer share one relation with a single peer on
\* each side, a get_k8s_svc_info() made right after
\* send_k8s_svc_info_relation_data(name, port) returns exactly name and port.
C6_PublishThenGetRoundTrips ==
    (last.call = "get" /\ last.after.call = "send" /\ SharedSinglePeer) =>
        /\ last.kind = "return"
        /\ DOMAIN last.value = RequiredKeys
        /\ last.value["svc_name"] = last.after.args[1]
        /\ last.value["svc_port"] = last.after.args[2]

C6_Witness ==
    /\ last.call = "get"
    /\ last.after.call = "send"
    /\ last.after.args = <<"svc.b1", "8080">>
    /\ SharedSinglePeer
    /\ last.kind = "return"
    /\ \E r \in RequirerBound : "extra" \in DOMAIN RemoteBag(r)

\* The local application's bag after a publish of name and port: the
\* previous contents with the two fields set.
MergedBag(bag, svc_name, svc_port) ==
    [k \in (DOMAIN bag) \cup {"svc_name", "svc_port"} |->
        IF k = "svc_name" THEN svc_name
        ELSE IF k = "svc_port" THEN svc_port
        ELSE bag[k]]

\* C7: send_k8s_svc_info_relation_data(name, port) merges with overwrite:
\* in every relation bound under the provider's relation name the local
\* application's bag becomes its previous contents with the two fields set
\* to name and port, and every other bag and the set of relations stay as
\* they were.
C7_PublishMergesWithOverwrite ==
    [][ last'.call = "send" =>
          /\ DOMAIN relations' = DOMAIN relations
          /\ \A r \in DOMAIN relations :
                /\ DOMAIN relations'[r] = DOMAIN relations[r]
                /\ \A a \in DOMAIN relations[r] :
                      relations'[r][a] =
                          IF r \in ProviderBound /\ a = provider.provider_charm
                          THEN MergedBag(relations[r][a],
                                         last'.args[1], last'.args[2])
                          ELSE relations[r][a] ]_vars

C7_Witness ==
    /\ last.call = "send"
    /\ last.args = <<"svc.b1", "8080">>
    /\ Cardinality(ProviderBound) = 2
    /\ \E r \in ProviderBound :
          /\ relations[r][provider.provider_charm] =
                 [svc_name |-> "svc.b1", svc_port |-> "8080", extra |-> "x"]
          /\ relations[r][r.requirer] # EmptyBag

\* C8: with no relation bound under the provider's relation name,
\* send_k8s_svc_info_relation_data returns normally for every name and port
\* and leaves every data bag unchanged.
C8_PublishWithoutRelationIsNoOp ==
    [][ (last'.call = "send" /\ ProviderBound = {}) =>
          /\ last'.kind = "return"
          /\ relations' = relations ]_vars

C8_Witness ==
    /\ last.call = "send"
    /\ last.kind = "return"
    /\ ProviderBound = {}
    /\ \E r \in DOMAIN relations :
          /\ provider.provider_charm \in DOMAIN relations[r]
          /\ "extra" \in DOMAIN relations[r][provider.provider_charm]

\* C9: when a relation under the provider's relation name is added after
\* the provider is instantiated, the provider application's bag in that
\* relation holds the service name and port without an explicit publish.
C9_ProviderPublishesOnRelationAdded ==
    [][ \A r \in (DOMAIN relations') \ (DOMAIN relations) :
          (r.name = provider.relation_name
              /\ r.provider = provider.provider_charm) =>
              RequiredKeys \subseteq
                  DOMAIN relations'[r][provider.provider_charm] ]_vars

\* C10: get_k8s_svc_info is a pure read: whatever its outcome, the
\* relations, the data bags and the accessors are unchanged, and a call made
\* right after another call has the same outcome.
C10_GetIsPureRead ==
    [][ last'.call = "get" =>
          /\ relations' = relations
          /\ requirer' = requirer
          /\ provider' = provider
          /\ last.call = "get" =>
                 [last' EXCEPT !.after = last.after] = last ]_vars

C10_Witness ==
    /\ last.call = "get"
    /\ last.after.call = "get"
    /\ last.kind = "return"
    /\ Cardinality(DOMAIN relations) = MaxRelations

====
